---------------------------- MODULE Spec2Model ----------------------------
(***************************************************************************)
(* A model of tonycerq-comfyui: the download orchestrator                  *)
(* (src/download_models.py), the websocket registry and its broadcast      *)
(* (src/constants/websocketEventManager.py, src/log_viewer.py) and the log *)
(* tailer with its ring buffer (src/workers/tailLogsFile.py,               *)
(* src/utils/getCurrentLogs.py).                                           *)
(*                                                                         *)
(* The subsystems are checked under specifications of their own that share *)
(* the variables (SpecDownload, SpecBroadcast, SpecTail, ...): each leaves *)
(* the variables of the others unchanged.                                  *)
(***************************************************************************)
EXTENDS Naturals, Integers, Sequences, FiniteSets, TLC

VARIABLES
    \* ---- download orchestrator (src/download_models.py) ----
    config,          \* the loaded configuration: a sequence of <<category, value>>
    force_download,  \* FORCE_MODEL_DOWNLOAD
    files,           \* the files under models/: a set of <<category, filename>>
    run,             \* which invocation of the orchestrator this is (1, 2, ...)
    main_pc,         \* where main() is: "start", "loaded", "gather", "done", "aborted"
    load,            \* how get_config_async ended, "none" before it is called
    config_errors,   \* the error records logged while loading the configuration
    jobs,            \* the jobs of this invocation, in creation order
    sem_value,       \* download_semaphore._value
    sem_waiters,     \* download_semaphore._waiters: job indices, FIFO
    prev_failed,     \* history: the jobs that ended failed in the previous invocation
    warnings,        \* the categories logger.warning was called for
    progress,        \* per job, the records track_download_progress has logged
    \* ---- websocket registry (src/constants/websocketEventManager.py) ----
    websocket_connections,  \* the list of registered websockets
    ws_pc,           \* per websocket, where its websocket_endpoint is
    client_gone,     \* per websocket, whether its client has closed the connection
    client_stalled,  \* per websocket, whether its client has stopped reading
    bc_pc,           \* per broadcaster, where its broadcast_to_websockets is
    bc_idx,          \* per broadcaster, the position of the list iterator
    bc_cur,          \* per broadcaster, the websocket being sent to
    bc_disc,         \* per broadcaster, its list "disconnected"
    bc_cycles,       \* the number of broadcast cycles started so far
    bc_start,        \* history: the registry when the cycle started
    bc_end,          \* history: the registry when the cycle ended
    bc_sent,         \* history: per websocket, the copies delivered in the cycle
    \* ---- log tailer and ring buffer (src/workers/tailLogsFile.py) ----
    file_exists,     \* whether /workspace/logs/comfyui.log exists
    file_data,       \* its content, a sequence of characters
    writes,          \* the lines written to it so far
    truncs,          \* the times it was truncated so far
    tail_pc,         \* where tail_log_file is
    current_position,\* follow: the stored offset
    file_size,       \* follow: the size seen by the last size check
    new_lines,       \* follow: the lines read and not yet yielded
    stripped_line,   \* tail_log_file: the line being processed
    prev_line,       \* tail_log_file: the line processed before
    log_buffer,      \* constants.logLock.log_buffer
    log_lock,        \* constants.logLock.log_lock: "free" or its holder
    snapshot,        \* what get_current_logs returned last
    appended,        \* history: every line appended to log_buffer, in order
    faults,          \* the exceptions raised in the tailer so far
    read_lines,      \* history: every line follow has read, in order
    tail_events,     \* history: the new_log_line events the tailer has broadcast
    truncated,       \* history: the file was truncated since follow's last size check
    \* ---- a FetchJob of the server (src/workers/download_file.py) ----
    job_variant,     \* which of the three download functions it is
    job_pc,          \* where the function is
    job_exit,        \* how its external process ended, "none" before
    job_events,      \* the statuses it has called broadcast_to_websockets with
    job_result,      \* the "success" of the returned dict, "none" before
    \* ---- gdown provisioning (src/workers/download_file.py) ----
    gdown_installed, \* whether pip has the package gdown
    gd_pc,           \* per gdrive job, where download_from_googledrive_async is
    installs,        \* the "pip install gdown" processes started so far
    other_pc         \* where a job of another variant is

dlVars == <<config, force_download, files, run, main_pc, load, config_errors, jobs, sem_value,
            sem_waiters, prev_failed, warnings, progress>>

wsVars == <<websocket_connections, ws_pc, client_gone, client_stalled,
           bc_pc, bc_idx, bc_cur,
            bc_disc, bc_cycles, bc_start, bc_end, bc_sent>>

tailVars == <<truncated, file_exists, file_data, writes, truncs, tail_pc, current_position,
              file_size, new_lines, stripped_line, prev_line, log_buffer,
              log_lock, snapshot, appended, faults, read_lines, tail_events>>

fetchVars == <<job_variant, job_pc, job_exit, job_events, job_result>>

provVars == <<gdown_installed, gd_pc, installs, other_pc>>

vars == <<dlVars, wsVars, tailVars, fetchVars, provVars>>

Range(s) == {s[i] : i \in DOMAIN s}

(***************************************************************************)
(*                     LOG TAILER AND RING BUFFER                          *)
(***************************************************************************)

\* if len(log_buffer) > 500
RingCapacity == 500

\* Bounds of the model: the lines written to the log file, the times it is
\* truncated, and the lines already in the buffer of a tailer that has been
\* running for a while.
MaxWrites == 3
MaxTruncs == 1
MaxFaults == 1
WarmLines == 499

\* The lines still written to the file of a tailer that has been running.
WarmWrites == 2

NL == "\n"

\* The lines a writer writes, without their terminator: "a", "b" and an
\* empty line.  None starts with a "[timestamp]" or holds a severity keyword.
LineTexts == {<<"a">>, <<"b">>, << >>}

Whitespace == {NL, " "}

\* str.strip()
RECURSIVE LStrip(_)
LStrip(str) ==
    IF str # << >> /\ Head(str) \in Whitespace THEN LStrip(Tail(str)) ELSE str

RECURSIVE RStrip(_)
RStrip(str) ==
    IF str # << >> /\ str[Len(str)] \in Whitespace
    THEN RStrip(SubSeq(str, 1, Len(str) - 1))
    ELSE str

Strip(str) == RStrip(LStrip(str))

\* file.readlines(): the data cut after each line terminator; a last piece
\* without terminator is a line too.
RECURSIVE ReadLines(_)
ReadLines(data) ==
    IF data = << >> THEN << >>
    ELSE LET ends == {i \in 1..Len(data) : data[i] = NL}
             k    == IF ends = {} THEN Len(data)
                     ELSE CHOOSE i \in ends : \A j \in ends : i <= j
         IN  <<SubSeq(data, 1, k)>> \o ReadLines(SubSeq(data, k + 1, Len(data)))

\* file.seek(current_position) and what is read from there on.
DataFrom(data, pos) == SubSeq(data, pos + 1, Len(data))

\* html.escape, character by character.
HtmlEscape(line) ==
    [i \in DOMAIN line |->
        CASE line[i] = "&" -> "&amp;"
          [] line[i] = "<" -> "&lt;"
          [] line[i] = ">" -> "&gt;"
          [] OTHER -> line[i]]

\* format_log_line for a line without timestamp and keyword: the time of the
\* rendering, the class log-info, the escaped content, in a div or (ws) a span.
FormatLogLine(line, ws) ==
    [tag       |-> IF ws THEN "span" ELSE "div",
     timestamp |-> "now",
     css_class |-> "log-info",
     content   |-> HtmlEscape(line)]

\* A variant of RenderLogs that leaves out every line already rendered.
RECURSIVE RenderLogsNoRepeats(_, _, _)
RenderLogsNoRepeats(buf, lo, hi) ==
    IF lo > hi THEN << >>
    ELSE IF lo = hi
    THEN IF \E k \in 1..(lo - 1) : buf[k] = buf[lo]
         THEN << >>
         ELSE <<FormatLogLine(buf[lo], FALSE)>>
    ELSE LET mid == (lo + hi) \div 2
         IN  RenderLogsNoRepeats(buf, lo, mid) \o RenderLogsNoRepeats(buf, mid + 1, hi)

\* get_current_logs, the loop over log_buffer for the lines lo..hi: a line is
\* rendered unless it equals prev_line, which is the line before it (None
\* before the first).  The loop is cut in halves to keep the evaluation flat.
RECURSIVE RenderLogs(_, _, _)
RenderLogs(buf, lo, hi) ==
    IF lo > hi THEN << >>
    ELSE IF lo = hi
    THEN IF lo > 1 /\ buf[lo] = buf[lo - 1]
         THEN << >>
         ELSE <<FormatLogLine(buf[lo], FALSE)>>
    ELSE LET mid == (lo + hi) \div 2
         IN  RenderLogs(buf, lo, mid) \o RenderLogs(buf, mid + 1, hi)

\* get_current_logs: the header's count and the rendered lines, or the
\* "No logs yet." line for an empty buffer.
GetCurrentLogs(buf) ==
    [count   |-> Len(buf),
     entries |-> RenderLogs(buf, 1, Len(buf)),
     no_logs |-> buf = << >>]

\* A variant of Evict that drops the newest entry, pop() for pop(0).
EvictNewest(buf) ==
    IF Len(buf) > RingCapacity THEN SubSeq(buf, 1, Len(buf) - 1) ELSE buf

\* if len(log_buffer) > 500: log_buffer.pop(0)
Evict(buf) == IF Len(buf) > RingCapacity THEN Tail(buf) ELSE buf

\* constants.logLock: log_buffer is created as an empty list and log_lock as
\* a lock nobody holds.
NewLogBuffer == << >>
NewLogLock == "free"

\* A variant of LockAcquirable: a lock that excludes nobody.
LockNeverHeld(lock) == TRUE

\* "with log_lock" is entered only while nobody holds the lock.
LockAcquirable(lock) == lock = "free"

\* A variant of LockOnExit: the lock is kept after the block.
LockKeptOnExit(lock) == lock

\* The end of a "with log_lock" block releases the lock.
LockOnExit(lock) == "free"

\* The buffer of a tailer that has been running: "a", "b", "a", ...
WarmBuffer == [i \in 1..WarmLines |-> IF i % 2 = 1 THEN <<"a">> ELSE <<"b">>]

\* The tailer is started (the buffer empty, the log file there or not), or
\* has been running: it has buffered WarmLines lines, the file has been
\* truncated for the last time since, follow has reset its offset, no
\* exception is raised any more and WarmWrites lines are still to be written.
InitTail ==
    /\ file_data = << >>
    /\ truncated = FALSE
    /\ current_position = 0
    /\ file_size = 0
    /\ new_lines = << >>
    /\ stripped_line = << >>
    /\ prev_line = << >>
    /\ log_lock = NewLogLock
    /\ snapshot = GetCurrentLogs(NewLogBuffer)
    /\ \/ /\ tail_pc = "start"
          /\ file_exists \in BOOLEAN
          /\ writes = 0
          /\ truncs = 0
          /\ faults = 0
          /\ log_buffer = NewLogBuffer
          /\ appended = << >>
          /\ read_lines = << >>
          /\ tail_events = << >>
       \/ /\ tail_pc = "check"
          /\ file_exists = TRUE
          /\ writes = MaxWrites - WarmWrites
          /\ truncs = MaxTruncs
          /\ faults = MaxFaults
          /\ log_buffer = WarmBuffer
          /\ appended = WarmBuffer
          /\ read_lines = [i \in 1..WarmLines |-> Append(WarmBuffer[i], NL)]
          /\ tail_events = [i \in 1..WarmLines |-> FormatLogLine(WarmBuffer[i], TRUE)]

\* Another process appends a line to the log file.
WriteLine(text) ==
    /\ file_exists
    /\ writes < MaxWrites
    /\ writes' = writes + 1
    /\ file_data' = file_data \o text \o <<NL>>
    /\ UNCHANGED <<file_exists, truncs, tail_pc, current_position, file_size,
                   new_lines, stripped_line, prev_line, log_buffer, log_lock,
                   snapshot, appended>>
    /\ UNCHANGED faults
    /\ UNCHANGED <<read_lines, tail_events>>
    /\ UNCHANGED truncated

\* What a writer has flushed of a line it has not ended yet.
PrefixTexts == {<<"a">>}

\* Another process appends the beginning of its first line, without
\* terminator; the rest of the line comes with its next write.
WritePrefix(text) ==
    /\ file_exists
    /\ writes = 0
    /\ writes < MaxWrites
    /\ writes' = writes + 1
    /\ file_data' = file_data \o text
    /\ UNCHANGED <<file_exists, truncs, tail_pc, current_position, file_size,
                   new_lines, stripped_line, prev_line, log_buffer, log_lock,
                   snapshot, appended, faults, read_lines, tail_events,
                   truncated>>

\* Another process truncates the log file.
Truncate ==
    /\ file_exists
    /\ truncs < MaxTruncs
    /\ file_data # << >>
    /\ truncs' = truncs + 1
    /\ file_data' = << >>
    /\ truncated' = TRUE
    /\ UNCHANGED <<file_exists, writes, tail_pc, current_position, file_size,
                   new_lines, stripped_line, prev_line, log_buffer, log_lock,
                   snapshot, appended>>
    /\ UNCHANGED faults
    /\ UNCHANGED <<read_lines, tail_events>>

\* tail_log_file up to the call of follow.  With the file missing,
\* os.makedirs("/", "workspace", "logs", exist_ok=True) is given exist_ok
\* twice and raises TypeError outside any try.
TailStart ==
    /\ tail_pc = "start"
    /\ tail_pc' = IF file_exists THEN "check" ELSE "crashed"
    /\ UNCHANGED <<file_exists, file_data, writes, truncs, current_position,
                   file_size, new_lines, stripped_line, prev_line, log_buffer,
                   log_lock, snapshot, appended>>
    /\ UNCHANGED faults
    /\ UNCHANGED <<read_lines, tail_events>>
    /\ UNCHANGED truncated

\* follow: file_size = os.path.getsize(file_path), and the reset of the
\* offset when the size is below it.
TailSizeCheck ==
    /\ tail_pc = "check"
    /\ file_size' = Len(file_data)
    /\ truncated' = FALSE
    /\ current_position' = IF Len(file_data) < current_position
                           THEN 0 ELSE current_position
    /\ tail_pc' = "read"
    /\ UNCHANGED <<file_exists, file_data, writes, truncs, new_lines,
                   stripped_line, prev_line, log_buffer, log_lock, snapshot,
                   appended>>
    /\ UNCHANGED faults
    /\ UNCHANGED <<read_lines, tail_events>>

\* follow: file.seek(current_position), file.readlines(); with new lines the
\* offset becomes file.tell(), without any follow sleeps and checks again.
TailRead ==
    /\ tail_pc = "read"
    /\ LET lines == ReadLines(DataFrom(file_data, current_position))
       IN  IF lines # << >>
           THEN /\ new_lines' = lines
                /\ read_lines' = read_lines \o lines
                /\ current_position' = Len(file_data)
                /\ tail_pc' = "yield"
           ELSE /\ tail_pc' = "check"
                /\ UNCHANGED <<new_lines, current_position, read_lines>>
    /\ UNCHANGED <<file_exists, file_data, writes, truncs, file_size,
                   stripped_line, prev_line, log_buffer, log_lock, snapshot,
                   appended>>
    /\ UNCHANGED faults
    /\ UNCHANGED tail_events
    /\ UNCHANGED truncated

\* A variant of Processes that lets every line through.
ProcessesEveryLine(line) == TRUE

\* if stripped_line:
Processes(line) == line # << >>

\* follow yields the next line and tail_log_file strips it; a line that is
\* not empty is appended to log_buffer under log_lock, an empty one only
\* becomes prev_line.  When every line is yielded follow checks the size again.
TailYield ==
    /\ tail_pc = "yield"
    /\ IF new_lines = << >>
       THEN /\ tail_pc' = "check"
            /\ UNCHANGED <<new_lines, stripped_line, prev_line, log_buffer,
                           log_lock, appended>>
       ELSE LET line == Strip(Head(new_lines))
            IN  /\ new_lines' = Tail(new_lines)
                /\ stripped_line' = line
                /\ IF Processes(line)
                   THEN /\ LockAcquirable(log_lock)
                        /\ log_lock' = "tailer"
                        /\ log_buffer' = Append(log_buffer, line)
                        /\ appended' = Append(appended, line)
                        /\ tail_pc' = "locked"
                        /\ UNCHANGED prev_line
                   ELSE /\ prev_line' = line
                        /\ UNCHANGED <<tail_pc, log_buffer, log_lock, appended>>
    /\ UNCHANGED <<file_exists, file_data, writes, truncs, current_position,
                   file_size, snapshot>>
    /\ UNCHANGED faults
    /\ UNCHANGED <<read_lines, tail_events>>
    /\ UNCHANGED truncated

\* tail_log_file, the rest of "with log_lock": the oldest entry is dropped when
\* the buffer holds more than 500, and the lock is released.
TailEvict ==
    /\ tail_pc = "locked"
    /\ log_buffer' = Evict(log_buffer)
    /\ log_lock' = LockOnExit(log_lock)
    /\ tail_pc' = "broadcast"
    /\ UNCHANGED <<file_exists, file_data, writes, truncs, current_position,
                   file_size, new_lines, stripped_line, prev_line, snapshot,
                   appended>>
    /\ UNCHANGED faults
    /\ UNCHANGED <<read_lines, tail_events>>
    /\ UNCHANGED truncated

\* tail_log_file: sync_broadcast_to_websockets of the new_log_line event
\* (nobody is connected), then prev_line = stripped_line.
TailBroadcast ==
    /\ tail_pc = "broadcast"
    /\ tail_events' = Append(tail_events, FormatLogLine(stripped_line, TRUE))
    /\ prev_line' = stripped_line
    /\ tail_pc' = "yield"
    /\ UNCHANGED <<file_exists, file_data, writes, truncs, current_position,
                   file_size, new_lines, stripped_line, log_buffer, log_lock,
                   snapshot, appended>>
    /\ UNCHANGED faults
    /\ UNCHANGED read_lines
    /\ UNCHANGED truncated

\* follow: os.path.getsize, file.seek or file.readlines raises; the except
\* branch prints the error and sleeps a second, and the loop goes on with the
\* offset it had.
TailFollowRaises ==
    /\ tail_pc \in {"check", "read"}
    /\ faults < MaxFaults
    /\ faults' = faults + 1
    /\ tail_pc' = "check"
    /\ UNCHANGED <<file_exists, file_data, writes, truncs, current_position,
                   file_size, new_lines, stripped_line, prev_line, log_buffer,
                   log_lock, snapshot, appended>>
    /\ UNCHANGED <<read_lines, tail_events>>
    /\ UNCHANGED truncated

\* tail_log_file: a statement of the loop body after the critical section
\* raises (rendering the line for the event).  The try encloses the whole for
\* loop: the except branch prints the error, sleeps five seconds, and
\* tail_log_file returns.
TailProcessRaises ==
    /\ tail_pc = "broadcast"
    /\ faults < MaxFaults
    /\ faults' = faults + 1
    /\ tail_pc' = "ended"
    /\ UNCHANGED <<file_exists, file_data, writes, truncs, current_position,
                   file_size, new_lines, stripped_line, prev_line, log_buffer,
                   log_lock, snapshot, appended>>
    /\ UNCHANGED <<read_lines, tail_events>>
    /\ UNCHANGED truncated

\* get_current_logs enters "with log_lock".
GetLogsAcquire ==
    /\ LockAcquirable(log_lock)
    /\ log_lock' = "reader"
    /\ UNCHANGED <<file_exists, file_data, writes, truncs, tail_pc,
                   current_position, file_size, new_lines, stripped_line,
                   prev_line, log_buffer, snapshot, appended>>
    /\ UNCHANGED faults
    /\ UNCHANGED <<read_lines, tail_events>>
    /\ UNCHANGED truncated

\* get_current_logs renders the buffer and returns.
GetLogsReturn ==
    /\ log_lock = "reader"
    /\ snapshot' = GetCurrentLogs(log_buffer)
    /\ log_lock' = "free"
    /\ UNCHANGED <<file_exists, file_data, writes, truncs, tail_pc,
                   current_position, file_size, new_lines, stripped_line,
                   prev_line, log_buffer, appended>>
    /\ UNCHANGED faults
    /\ UNCHANGED <<read_lines, tail_events>>
    /\ UNCHANGED truncated

NextTail ==
    \/ \E text \in LineTexts : WriteLine(text) /\ UNCHANGED <<dlVars, wsVars, fetchVars, provVars>>
    \/ \E text \in PrefixTexts : WritePrefix(text) /\ UNCHANGED <<dlVars, wsVars, fetchVars, provVars>>
    \/ Truncate /\ UNCHANGED <<dlVars, wsVars, fetchVars, provVars>>
    \/ TailStart /\ UNCHANGED <<dlVars, wsVars, fetchVars, provVars>>
    \/ TailSizeCheck /\ UNCHANGED <<dlVars, wsVars, fetchVars, provVars>>
    \/ TailRead /\ UNCHANGED <<dlVars, wsVars, fetchVars, provVars>>
    \/ TailYield /\ UNCHANGED <<dlVars, wsVars, fetchVars, provVars>>
    \/ TailEvict /\ UNCHANGED <<dlVars, wsVars, fetchVars, provVars>>
    \/ TailBroadcast /\ UNCHANGED <<dlVars, wsVars, fetchVars, provVars>>
    \/ TailFollowRaises /\ UNCHANGED <<dlVars, wsVars, fetchVars, provVars>>
    \/ TailProcessRaises /\ UNCHANGED <<dlVars, wsVars, fetchVars, provVars>>
    \/ GetLogsAcquire /\ UNCHANGED <<dlVars, wsVars, fetchVars, provVars>>
    \/ GetLogsReturn /\ UNCHANGED <<dlVars, wsVars, fetchVars, provVars>>

\* The tailer as the orchestrator's and the registry's specifications see it:
\* not started.
NoTailer ==
    /\ truncated = FALSE
    /\ file_exists = TRUE
    /\ file_data = << >>
    /\ writes = 0
    /\ truncs = 0
    /\ tail_pc = "start"
    /\ current_position = 0
    /\ file_size = 0
    /\ new_lines = << >>
    /\ stripped_line = << >>
    /\ prev_line = << >>
    /\ log_buffer = NewLogBuffer
    /\ log_lock = NewLogLock
    /\ snapshot = GetCurrentLogs(<< >>)
    /\ appended = << >>
    /\ faults = 0
    /\ read_lines = << >>
    /\ tail_events = << >>

(***************************************************************************)
(*                         WEBSOCKET REGISTRY                              *)
(***************************************************************************)

\* Bounds of the model: the websockets that connect, and the broadcast
\* cycles that are started.
NumWebsockets == 3
MaxBroadcasts == 2

Websockets == 1..NumWebsockets

\* The two producers: the tailer's thread (sync_broadcast_to_websockets) and
\* a FetchJob on the server's event loop.
Broadcasters == {"tailer", "job"}

NoWebsocket == 0

\* list.remove(x): the list without its first x.
RECURSIVE ListRemove(_, _)
ListRemove(list, x) ==
    IF list = << >> THEN << >>
    ELSE IF Head(list) = x THEN Tail(list)
    ELSE <<Head(list)>> \o ListRemove(Tail(list), x)

\* list.remove(x) raises ValueError when x is not in the list.
RemoveRaises(list, x) == x \notin Range(list)

\* for ws in disconnected: websocket_connections.remove(ws)
\* The loop ends at the first remove that raises.
RECURSIVE RemoveDisconnected(_, _)
RemoveDisconnected(list, disc) ==
    IF disc = << >> THEN [conns |-> list, raised |-> FALSE]
    ELSE IF RemoveRaises(list, Head(disc)) THEN [conns |-> list, raised |-> TRUE]
    ELSE RemoveDisconnected(ListRemove(list, Head(disc)), Tail(disc))

\* await websocket.send_text(...) raises when the client has closed.
SendFails(ws) == client_gone[ws]

\* await websocket.send_text(...) ends, delivered or raising, unless the
\* client has stopped reading: the await is without a timeout.
SendEnds(ws) == ~client_stalled[ws]

InitBroadcast ==
    /\ websocket_connections = << >>
    /\ ws_pc = [w \in Websockets |-> "none"]
    /\ client_gone = [w \in Websockets |-> FALSE]
    /\ client_stalled = [w \in Websockets |-> FALSE]
    /\ bc_pc = [b \in Broadcasters |-> "idle"]
    /\ bc_idx = [b \in Broadcasters |-> 0]
    /\ bc_cur = [b \in Broadcasters |-> NoWebsocket]
    /\ bc_disc = [b \in Broadcasters |-> << >>]
    /\ bc_cycles = 0
    /\ bc_start = [b \in Broadcasters |-> {}]
    /\ bc_end = [b \in Broadcasters |-> {}]
    /\ bc_sent = [b \in Broadcasters |-> [w \in Websockets |-> 0]]

\* The registry as the orchestrator's and the tailer's specifications see it.
NoRegistry == InitBroadcast

\* websocket_endpoint up to its receive loop: accept, append, greeting.
Connect(w) ==
    /\ ws_pc[w] = "none"
    /\ websocket_connections' = Append(websocket_connections, w)
    /\ ws_pc' = [ws_pc EXCEPT ![w] = "open"]
    /\ UNCHANGED <<client_gone, client_stalled, bc_pc, bc_idx, bc_cur, bc_disc,
                   bc_cycles, bc_start, bc_end, bc_sent>>

\* The client closes its connection.
ClientClose(w) ==
    /\ ws_pc[w] = "open"
    /\ ~client_gone[w]
    /\ client_gone' = [client_gone EXCEPT ![w] = TRUE]
    /\ UNCHANGED <<websocket_connections, ws_pc, client_stalled, bc_pc, bc_idx,
                   bc_cur, bc_disc, bc_cycles, bc_start, bc_end, bc_sent>>

\* websocket_endpoint: receive_text raises WebSocketDisconnect and the handler
\* removes the websocket; the remove raises when a broadcast removed it first.
EndpointDisconnect(w) ==
    /\ ws_pc[w] = "open"
    /\ client_gone[w]
    /\ IF RemoveRaises(websocket_connections, w)
       THEN /\ ws_pc' = [ws_pc EXCEPT ![w] = "raised"]
            /\ UNCHANGED websocket_connections
       ELSE /\ ws_pc' = [ws_pc EXCEPT ![w] = "closed"]
            /\ websocket_connections' = ListRemove(websocket_connections, w)
    /\ UNCHANGED <<client_gone, client_stalled, bc_pc, bc_idx, bc_cur, bc_disc,
                   bc_cycles, bc_start, bc_end, bc_sent>>

\* broadcast_to_websockets is called: with an empty registry it returns at
\* once, otherwise the for loop takes the first websocket and awaits the send.
\* (bc_cycles is left to the caller.)
BroadcastCall(b) ==
    /\ bc_pc[b] \in {"idle", "done", "raised"}
    /\ bc_start' = [bc_start EXCEPT ![b] = Range(websocket_connections)]
    /\ bc_sent' = [bc_sent EXCEPT ![b] = [w \in Websockets |-> 0]]
    /\ bc_disc' = [bc_disc EXCEPT ![b] = << >>]
    /\ IF websocket_connections = << >>
       THEN /\ bc_pc' = [bc_pc EXCEPT ![b] = "done"]
            /\ bc_idx' = [bc_idx EXCEPT ![b] = 0]
            /\ bc_cur' = [bc_cur EXCEPT ![b] = NoWebsocket]
            /\ bc_end' = [bc_end EXCEPT ![b] = {}]
       ELSE /\ bc_pc' = [bc_pc EXCEPT ![b] = "sending"]
            /\ bc_idx' = [bc_idx EXCEPT ![b] = 1]
            /\ bc_cur' = [bc_cur EXCEPT ![b] = websocket_connections[1]]
            /\ UNCHANGED bc_end
    /\ UNCHANGED <<websocket_connections, ws_pc, client_gone, client_stalled>>

\* A producer calls broadcast_to_websockets, MaxBroadcasts times at most.
BroadcastBegin(b) ==
    /\ bc_cycles < MaxBroadcasts
    /\ bc_cycles' = bc_cycles + 1
    /\ BroadcastCall(b)

\* The awaited send ends, delivered or raising (the websocket then joins
\* "disconnected"), and the for loop goes on: the list iterator yields the
\* item at its position in the list as it is now, or the loop is over and
\* the disconnected websockets are removed.
BroadcastSend(b) ==
    /\ bc_pc[b] = "sending"
    /\ SendEnds(bc_cur[b])
    /\ LET w    == bc_cur[b]
           disc == IF SendFails(w) THEN Append(bc_disc[b], w) ELSE bc_disc[b]
           rem  == RemoveDisconnected(websocket_connections, disc)
       IN  /\ bc_sent' = IF SendFails(w) THEN bc_sent
                         ELSE [bc_sent EXCEPT ![b][w] = @ + 1]
           /\ bc_disc' = [bc_disc EXCEPT ![b] = disc]
           /\ IF bc_idx[b] < Len(websocket_connections)
              THEN /\ bc_cur' = [bc_cur EXCEPT
                                   ![b] = websocket_connections[bc_idx[b] + 1]]
                   /\ bc_idx' = [bc_idx EXCEPT ![b] = @ + 1]
                   /\ UNCHANGED <<bc_pc, bc_end, websocket_connections>>
              ELSE /\ bc_pc' = [bc_pc EXCEPT
                                  ![b] = IF rem.raised THEN "raised" ELSE "done"]
                   /\ websocket_connections' = rem.conns
                   /\ bc_end' = [bc_end EXCEPT ![b] = Range(rem.conns)]
                   /\ bc_cur' = [bc_cur EXCEPT ![b] = NoWebsocket]
                   /\ UNCHANGED bc_idx
    /\ UNCHANGED <<ws_pc, client_gone, client_stalled, bc_cycles, bc_start>>

\* A connected client stops reading from its connection and keeps it open:
\* a send to it does not end from then on.
ClientStall(w) ==
    /\ ws_pc[w] = "open"
    /\ ~client_gone[w]
    /\ ~client_stalled[w]
    /\ client_stalled' = [client_stalled EXCEPT ![w] = TRUE]
    /\ UNCHANGED <<websocket_connections, ws_pc, client_gone, bc_pc, bc_idx,
                   bc_cur, bc_disc, bc_cycles, bc_start, bc_end, bc_sent>>

\* The websockets a cycle has tried to send to: those it delivered to and
\* those whose send raised.
Tried(b) == {w \in Websockets : bc_sent[b][w] > 0} \cup Range(bc_disc[b])

NextBroadcast ==
    \/ \E w \in Websockets : Connect(w) /\ UNCHANGED <<dlVars, tailVars, fetchVars, provVars>>
    \/ \E w \in Websockets : ClientClose(w) /\ UNCHANGED <<dlVars, tailVars, fetchVars, provVars>>
    \/ \E w \in Websockets : EndpointDisconnect(w) /\ UNCHANGED <<dlVars, tailVars, fetchVars, provVars>>
    \/ \E b \in Broadcasters : BroadcastBegin(b) /\ UNCHANGED <<dlVars, tailVars, fetchVars, provVars>>
    \/ \E b \in Broadcasters : BroadcastSend(b) /\ UNCHANGED <<dlVars, tailVars, fetchVars, provVars>>

\* The tailer's broadcasts with clients that connect and stop reading.
NextStall ==
    \/ \E w \in Websockets : Connect(w) /\ UNCHANGED <<dlVars, tailVars, fetchVars, provVars>>
    \/ \E w \in Websockets : ClientStall(w) /\ UNCHANGED <<dlVars, tailVars, fetchVars, provVars>>
    \/ BroadcastBegin("tailer") /\ UNCHANGED <<dlVars, tailVars, fetchVars, provVars>>
    \/ BroadcastSend("tailer") /\ UNCHANGED <<dlVars, tailVars, fetchVars, provVars>>

\* asyncio.run drives the tailer's broadcast to its end: a send that can end
\* does end.
FairStall ==
    WF_vars(BroadcastSend("tailer")
              /\ UNCHANGED <<dlVars, tailVars, fetchVars, provVars>>)

(***************************************************************************)
(*                              FETCH JOBS                                 *)
(***************************************************************************)

\* download_from_civitai_async, download_from_huggingface_async and
\* download_from_googledrive_async.
Variants == {"civitai", "huggingface", "gdrive"}

\* How the external process ends: returncode 0, another returncode, or
\* create_subprocess_exec / communicate raising.
ProcessOutcomes == {"exit0", "exitN", "exception"}

\* The event a function broadcasts for an outcome of its process: in the
\* try, "success" for returncode 0 and "failed" otherwise; in the except
\* branch, "failed".
TerminalEvent(outcome) == IF outcome = "exit0" THEN "success" ELSE "failed"

\* Whether os.makedirs(model_dir) comes after the "downloading" broadcast:
\* it does in download_from_civitai_async only.
MakedirsAfterAnnounce(variant) == variant = "civitai"

InitFetch ==
    /\ job_variant \in Variants
    /\ job_pc = "start"
    /\ job_exit = "none"
    /\ job_events = << >>
    /\ job_result = "none"

\* No FetchJob is run.
NoFetchJob ==
    /\ job_variant = "civitai"
    /\ job_pc = "start"
    /\ job_exit = "none"
    /\ job_events = << >>
    /\ job_result = "none"

\* The function is called and awaits the broadcast of "downloading", which
\* is outside its try.
JobAnnounce ==
    /\ job_pc = "start"
    /\ BroadcastCall("job")
    /\ job_events' = Append(job_events, "downloading")
    /\ job_pc' = "announcing"
    /\ UNCHANGED <<bc_cycles, job_variant, job_exit, job_result>>

\* The broadcast of "downloading" is over.  When it raised, the exception
\* leaves the function.  Otherwise the process is started; in
\* download_from_civitai_async os.makedirs comes first, outside the try, and
\* may raise.
JobAnnounced(makedirs_ok) ==
    /\ job_pc = "announcing"
    /\ bc_pc["job"] \in {"done", "raised"}
    /\ job_pc' = IF bc_pc["job"] = "raised" THEN "raised"
                 ELSE IF MakedirsAfterAnnounce(job_variant) /\ ~makedirs_ok
                 THEN "raised"
                 ELSE "running"
    /\ UNCHANGED <<wsVars, job_variant, job_exit, job_events, job_result>>

\* The process ends and the function awaits the broadcast of the terminal
\* event, in the try for a returncode and in the except branch for an
\* exception.
JobProcessExit(outcome) ==
    /\ job_pc = "running"
    /\ job_exit' = outcome
    /\ BroadcastCall("job")
    /\ job_events' = Append(job_events, TerminalEvent(outcome))
    /\ job_pc' = IF outcome = "exception" THEN "reporting_error" ELSE "reporting"
    /\ UNCHANGED <<bc_cycles, job_variant, job_result>>

\* The broadcast of the terminal event in the try is over: the function
\* returns success for returncode 0; when the broadcast raised, the except
\* branch catches it and broadcasts "failed".
JobReported ==
    /\ job_pc = "reporting"
    /\ bc_pc["job"] \in {"done", "raised"}
    /\ IF bc_pc["job"] = "raised"
       THEN /\ BroadcastCall("job")
            /\ job_events' = Append(job_events, "failed")
            /\ job_pc' = "reporting_error"
            /\ UNCHANGED <<bc_cycles, job_result>>
       ELSE /\ job_result' = (job_exit = "exit0")
            /\ job_pc' = "returned"
            /\ UNCHANGED <<wsVars, job_events>>
    /\ UNCHANGED <<job_variant, job_exit>>

\* The broadcast of "failed" in the except branch is over: the function
\* returns failure, or the exception of the broadcast leaves it.
JobErrorReported ==
    /\ job_pc = "reporting_error"
    /\ bc_pc["job"] \in {"done", "raised"}
    /\ IF bc_pc["job"] = "raised"
       THEN /\ job_pc' = "raised"
            /\ UNCHANGED job_result
       ELSE /\ job_pc' = "returned"
            /\ job_result' = FALSE
    /\ UNCHANGED <<wsVars, job_variant, job_exit, job_events>>

NextFetch ==
    \/ \E w \in Websockets : Connect(w) /\ UNCHANGED <<dlVars, tailVars, fetchVars, provVars>>
    \/ \E w \in Websockets : ClientClose(w) /\ UNCHANGED <<dlVars, tailVars, fetchVars, provVars>>
    \/ \E w \in Websockets : EndpointDisconnect(w) /\ UNCHANGED <<dlVars, tailVars, fetchVars, provVars>>
    \/ BroadcastSend("job") /\ UNCHANGED <<dlVars, tailVars, fetchVars, provVars>>
    \/ JobAnnounce /\ UNCHANGED <<dlVars, tailVars, provVars>>
    \/ \E ok \in BOOLEAN : JobAnnounced(ok) /\ UNCHANGED <<dlVars, tailVars, provVars>>
    \/ \E o \in ProcessOutcomes : JobProcessExit(o) /\ UNCHANGED <<dlVars, tailVars, provVars>>
    \/ JobReported /\ UNCHANGED <<dlVars, tailVars, provVars>>
    \/ JobErrorReported /\ UNCHANGED <<dlVars, tailVars, provVars>>

(***************************************************************************)
(*                          GDOWN PROVISIONING                             *)
(***************************************************************************)

\* Bound of the model: the gdrive jobs the server runs as tasks of one loop.
NumGdriveJobs == 3

GdriveJobs == 1..NumGdriveJobs

\* The jobs are started by POST /download/googledrive (and one by POST
\* /download/civitai or /download/huggingface); gdown is installed or not.
InitProvision ==
    /\ gdown_installed \in BOOLEAN
    /\ gd_pc = [j \in GdriveJobs |-> "start"]
    /\ installs = 0
    /\ other_pc = "start"

\* No download is requested from the server.
NoProvision ==
    /\ gdown_installed = FALSE
    /\ gd_pc = [j \in GdriveJobs |-> "start"]
    /\ installs = 0
    /\ other_pc = "start"

\* download_from_googledrive_async up to the await of "pip show gdown".
GdPipShow(j) ==
    /\ gd_pc[j] = "start"
    /\ gd_pc' = [gd_pc EXCEPT ![j] = "show"]
    /\ UNCHANGED <<gdown_installed, installs, other_pc>>

\* "pip show gdown" ends: with returncode 0 the job goes on to gdown, with
\* another returncode CalledProcessError is raised and the bare except
\* starts "pip install gdown" and awaits it.  Nothing is held meanwhile.
GdPipShowExit(j) ==
    /\ gd_pc[j] = "show"
    /\ IF gdown_installed
       THEN /\ gd_pc' = [gd_pc EXCEPT ![j] = "fetch"]
            /\ UNCHANGED installs
       ELSE /\ gd_pc' = [gd_pc EXCEPT ![j] = "install"]
            /\ installs' = installs + 1
    /\ UNCHANGED <<gdown_installed, other_pc>>

\* "pip install gdown" ends, having installed the package or not (its
\* returncode is not looked at), and the job starts gdown.
GdPipInstallExit(j, installed) ==
    /\ gd_pc[j] = "install"
    /\ gdown_installed' = (gdown_installed \/ installed)
    /\ gd_pc' = [gd_pc EXCEPT ![j] = "fetch"]
    /\ UNCHANGED <<installs, other_pc>>

\* gdown ends (or could not be started) and the job reports and returns.
GdFetchExit(j) ==
    /\ gd_pc[j] = "fetch"
    /\ gd_pc' = [gd_pc EXCEPT ![j] = "done"]
    /\ UNCHANGED <<gdown_installed, installs, other_pc>>

\* The job of another variant starts its process, and later the process
\* ends: both functions await only their own process and the broadcasts.
OtherJobStep ==
    /\ other_pc \in {"start", "fetch"}
    /\ other_pc' = IF other_pc = "start" THEN "fetch" ELSE "done"
    /\ UNCHANGED <<gdown_installed, gd_pc, installs>>

NextProvision ==
    \/ \E j \in GdriveJobs : GdPipShow(j) /\ UNCHANGED <<dlVars, wsVars, tailVars, fetchVars>>
    \/ \E j \in GdriveJobs : GdPipShowExit(j) /\ UNCHANGED <<dlVars, wsVars, tailVars, fetchVars>>
    \/ \E j \in GdriveJobs, installed \in BOOLEAN :
          GdPipInstallExit(j, installed) /\ UNCHANGED <<dlVars, wsVars, tailVars, fetchVars>>
    \/ \E j \in GdriveJobs : GdFetchExit(j) /\ UNCHANGED <<dlVars, wsVars, tailVars, fetchVars>>
    \/ OtherJobStep /\ UNCHANGED <<dlVars, wsVars, tailVars, fetchVars>>

(***************************************************************************)
(*                        DOWNLOAD ORCHESTRATOR                            *)
(***************************************************************************)

\* download_semaphore = asyncio.Semaphore(5)
MaxConcurrent == 5

\* Bounds of the model: the number of URLs of a configuration and the number
\* of times the orchestrator is run.
MaxJobs == 6
MaxForcedJobs == 3
MaxRuns == 2
MaxMixedJobs == 2

\* A URL is the sequence of its "/"-separated parts after the scheme.  The
\* second lora URL has the final path segment of the first on another host;
\* the third ends with "/", so that its final path segment is empty.
CheckpointUrls ==
    [i \in 1..(MaxJobs + 1) |-> <<"h", "ckpt", ToString(i)>>]

LoraUrls == << <<"h", "lora", "x">>, <<"g", "mirror", "x">>, <<"h", "lora", "">> >>

\* A value of the configuration, as json.loads gives it: a list of URLs, or
\* something else (here a single URL given as a string, not as a list).
JsonList(urls) == [list |-> TRUE, items |-> urls]
JsonString(text) == [list |-> FALSE, items |-> text]

\* isinstance(urls, list)
IsList(value) == value.list

RECURSIVE UrlCount(_, _)
UrlCount(cfg, k) ==
    IF k = 0 THEN 0
    ELSE UrlCount(cfg, k - 1) +
         (IF cfg[k][2].list THEN Len(cfg[k][2].items) ELSE 0)

\* sum(len(urls) for urls in config.values() if isinstance(urls, list))
ConfigSize(cfg) == UrlCount(cfg, Len(cfg))

\* The configurations the model is run on: a category of n checkpoints and a
\* category of no, two or three loras, at most MaxJobs URLs altogether (at most
\* MaxForcedJobs when every file is fetched again); the same with a category
\* between them whose value is not a list, at most MaxMixedJobs URLs
\* altogether; and the empty mapping.
Configs ==
    { cfg \in { << <<"checkpoints", JsonList(SubSeq(CheckpointUrls, 1, n))>>,
                   <<"loras", JsonList(SubSeq(LoraUrls, 1, m))>> >> :
                  n \in 0..MaxJobs, m \in {0, 2, 3} } :
        ConfigSize(cfg) <= MaxJobs }
    \cup
    { cfg \in { << <<"checkpoints", JsonList(SubSeq(CheckpointUrls, 1, n))>>,
                   <<"vae", JsonString(<<"h", "vae", "v">>)>>,
                   <<"loras", JsonList(SubSeq(LoraUrls, 1, m))>> >> :
                  n \in 0..MaxMixedJobs, m \in {0, 2} } :
        ConfigSize(cfg) <= MaxMixedJobs }
    \cup { << >> }

\* How get_config_async ends: the parsed body, or an exception of
\* session.get (unreachable), of raise_for_status (http_error) or of
\* json.loads (not_json).
LoadOutcomes == {"ok", "unreachable", "http_error", "not_json"}

\* get_config_async: the error it logs in its except branch before it
\* returns None.
GetConfigErrors(outcome) ==
    IF outcome = "ok" THEN << >> ELSE <<"Failed to load config">>

\* main, "if not config": None and the empty mapping are false.
NotConfig(outcome, cfg) == outcome # "ok" \/ cfg = << >>

\* filename = url.split("/")[-1]
FilenameOf(url) == url[Len(url)]

\* (category_path / filename).exists(): a file of that name is in the
\* category's directory, or the name is empty and the path is the directory
\* itself, which category_path.mkdir has made.
PathExists(category, filename, fs) ==
    filename = "" \/ <<category, filename>> \in fs

\* A variant of ShouldSkip that looks for the file in the models directory
\* instead of the category's directory.
ShouldSkipWrongDir(category, url, fs, force) ==
    (<<"models", FilenameOf(url)>> \in fs) /\ ~force

\* (category_path / filename).exists() and not force_download
ShouldSkip(category, url, fs, force) ==
    PathExists(category, FilenameOf(url), fs) /\ ~force

\* download_category_models: one job per URL, in order.  A job whose file is
\* there is skipped (no task); the others are numbered i + 1 of
\* len(download_tasks) and become tasks of track_download_progress.
DownloadCategoryModels(category, value, fs, force) ==
    IF ~IsList(value) THEN << >>
    ELSE
    LET urls    == value.items
        skip(i) == ShouldSkip(category, urls[i], fs, force)
        ord(i)  == Cardinality({k \in 1..i : ~skip(k)})
    IN  [i \in 1..Len(urls) |->
            [cat      |-> category,
             url      |-> urls[i],
             filename |-> FilenameOf(urls[i]),
             ordinal  |-> IF skip(i) THEN 0 ELSE ord(i),
             total    |-> ord(Len(urls)),
             st       |-> IF skip(i) THEN "skipped" ELSE "pending",
             outcome  |-> "none"]]

\* download_category_models, "if not isinstance(urls, list)": the warning
\* 'Skipping <category> as it's not a list of URLs'.
DownloadCategoryWarnings(category, value) ==
    IF ~IsList(value) THEN <<category>> ELSE << >>

\* main, "if isinstance(urls, list) and urls": the categories of which
\* download_category_models is called.
MainExpands(value) == IsList(value) /\ value.items # << >>

\* main, the loop over config.items(): nothing in it suspends, so every
\* category is expanded before any task runs.
RECURSIVE CategoryTasks(_, _, _, _)
CategoryTasks(cfg, k, fs, force) ==
    IF k = 0 THEN << >>
    ELSE CategoryTasks(cfg, k - 1, fs, force) \o
         (IF MainExpands(cfg[k][2])
          THEN DownloadCategoryModels(cfg[k][1], cfg[k][2], fs, force)
          ELSE << >>)

\* The warnings logged in that loop: those of the calls it makes.
RECURSIVE CategoryWarnings(_, _)
CategoryWarnings(cfg, k) ==
    IF k = 0 THEN << >>
    ELSE CategoryWarnings(cfg, k - 1) \o
         (IF MainExpands(cfg[k][2])
          THEN DownloadCategoryWarnings(cfg[k][1], cfg[k][2])
          ELSE << >>)

Queued(js)  == {j \in DOMAIN js : js[j].st # "skipped"}
Pending(js) == {j \in DOMAIN js : js[j].st = "pending"}
Running(js) == {j \in DOMAIN js : js[j].st = "running"}
\* A variant of Terminal that counts a running task as done.
TerminalOrRunning(js) ==
    {j \in DOMAIN js : js[j].st \in {"succeeded", "failed", "running"}}

\* The tasks that are done: track_download_progress has returned.
Terminal(js) == {j \in DOMAIN js : js[j].st \in {"succeeded", "failed"}}

\* The exit of the external process as download_file returns it: True for
\* returncode 0, False for another status and for an exception.
Outcomes == {"exit0", "exitN", "exception"}

DownloadFileResult(outcome) == outcome = "exit0"

\* A variant of TrackDownloadProgress that queues a failed job again.
TrackDownloadProgressRetry(result) == IF result THEN "succeeded" ELSE "pending"

\* track_download_progress: the record it logs for a job, "[current/total]
\* ... filename (category)", at level info for a result that is true and at
\* level error otherwise.
ProgressRecord(job, result) ==
    [category |-> job.cat,
     filename |-> job.filename,
     ordinal  |-> job.ordinal,
     total    |-> job.total,
     outcome  |-> IF result THEN "succeeded" ELSE "failed"]

\* track_download_progress: logs the result and returns it.
TrackDownloadProgress(result) == IF result THEN "succeeded" ELSE "failed"

\* A variant of SemaphoreLocked: a gate that never closes.
SemaphoreNeverLocked == FALSE

\* asyncio.Semaphore.locked()
SemaphoreLocked == sem_value = 0 \/ sem_waiters # << >>

\* A variant of SemaphoreRelease that wakes nobody.
ReleaseWithoutWakeup(value, waiters) ==
    [value |-> value + 1, waiters |-> waiters, woken |-> 0]

\* asyncio.Semaphore.release(), as "async with" calls it on exit: the slot
\* goes to the first waiter, which is woken (woken is 0 when nobody waits).
SemaphoreRelease(value, waiters) ==
    IF waiters # << >>
    THEN [value |-> value, waiters |-> Tail(waiters), woken |-> Head(waiters)]
    ELSE [value |-> value + 1, waiters |-> waiters, woken |-> 0]

\* A variant of GatherDone: the wait ends at the first failed task.
GatherFirstFailure(js) ==
    \/ Queued(js) \subseteq Terminal(js)
    \/ \E j \in Queued(js) : js[j].st = "failed"

\* await asyncio.gather(*category_tasks) returns when every task is done.
GatherDone(js) == Queued(js) \subseteq Terminal(js)

InitDownload ==
    /\ config \in Configs
    /\ force_download \in BOOLEAN
    /\ force_download => ConfigSize(config) <= MaxForcedJobs
    /\ files \in {{}, {<<"checkpoints", "1">>}}
    /\ run = 1
    /\ main_pc = "start"
    /\ load = "none"
    /\ config_errors = << >>
    /\ jobs = << >>
    /\ sem_value = MaxConcurrent
    /\ sem_waiters = << >>
    /\ prev_failed = {}
    /\ warnings = << >>
    /\ progress = << >>

\* main(): config = await get_config_async(config_path), and the return
\* with a second error record when the result is false.
MainLoadConfig(outcome) ==
    /\ main_pc = "start"
    /\ load' = outcome
    /\ IF NotConfig(outcome, config)
       THEN /\ main_pc' = "aborted"
            /\ config_errors' = GetConfigErrors(outcome) \o
                                    <<"Failed to get configuration, exiting.">>
       ELSE /\ main_pc' = "loaded"
            /\ config_errors' = GetConfigErrors(outcome)
    /\ UNCHANGED <<config, force_download, files, run, jobs, sem_value,
                   sem_waiters, prev_failed, warnings, progress>>

\* main(), from the loaded configuration to the await of gather.
MainCreateTasks ==
    /\ main_pc = "loaded"
    /\ LET js == CategoryTasks(config, Len(config), files, force_download)
       IN  /\ jobs' = js
           /\ progress' = [j \in DOMAIN js |-> << >>]
           /\ main_pc' = IF Queued(js) = {} THEN "done" ELSE "gather"
    /\ warnings' = CategoryWarnings(config, Len(config))
    /\ UNCHANGED <<config, force_download, files, run, load, config_errors,
                   sem_value, sem_waiters, prev_failed>>

\* A task starts: track_download_progress awaits download_file, which enters
\* "async with semaphore".  The event loop starts the tasks in creation order.
TaskStart(j) ==
    /\ main_pc = "gather"
    /\ j \in Pending(jobs)
    /\ \A k \in Pending(jobs) : j <= k
    /\ IF SemaphoreLocked
       THEN /\ jobs' = [jobs EXCEPT ![j].st = "waiting"]
            /\ sem_waiters' = Append(sem_waiters, j)
            /\ UNCHANGED sem_value
       ELSE /\ jobs' = [jobs EXCEPT ![j].st = "running"]
            /\ sem_value' = sem_value - 1
            /\ UNCHANGED sem_waiters
    /\ UNCHANGED <<config, force_download, files, run, main_pc, load,
                   config_errors, prev_failed, warnings, progress>>

\* The external process of job j ends (or could not be started), download_file
\* returns and leaves "async with semaphore": release() hands the slot to the
\* first waiter, if any.  The loop polls for process exits only after it
\* has run every ready task.
ProcessExit(j, outcome) ==
    /\ main_pc = "gather"
    /\ Pending(jobs) = {}
    /\ j \in Running(jobs)
    /\ LET done == [jobs EXCEPT
                      ![j].st = TrackDownloadProgress(DownloadFileResult(outcome)),
                      ![j].outcome = outcome]
           rel  == SemaphoreRelease(sem_value, sem_waiters)
       IN  /\ jobs' = IF rel.woken # 0
                      THEN [done EXCEPT ![rel.woken].st = "running"]
                      ELSE done
           /\ sem_waiters' = rel.waiters
           /\ sem_value' = rel.value
    /\ progress' = [progress EXCEPT
                       ![j] = Append(@, ProgressRecord(jobs[j],
                                                       DownloadFileResult(outcome)))]
    /\ files' = IF outcome = "exit0"
                THEN files \cup {<<jobs[j].cat, jobs[j].filename>>}
                ELSE files
    /\ UNCHANGED <<config, force_download, run, main_pc, load, config_errors,
                   prev_failed, warnings>>

\* main() after gather: "All model downloads completed!"
MainGather ==
    /\ main_pc = "gather"
    /\ GatherDone(jobs)
    /\ main_pc' = "done"
    /\ UNCHANGED <<config, force_download, files, run, load, config_errors,
                   jobs, sem_value, sem_waiters, prev_failed, warnings,
                   progress>>

\* The orchestrator is run again, on the files the previous run left.
Rerun ==
    /\ main_pc = "done"
    /\ run < MaxRuns
    /\ run' = run + 1
    /\ main_pc' = "start"
    /\ load' = "none"
    /\ config_errors' = << >>
    /\ prev_failed' = {j \in DOMAIN jobs : jobs[j].st = "failed"}
    /\ jobs' = << >>
    /\ sem_value' = MaxConcurrent
    /\ sem_waiters' = << >>
    /\ warnings' = << >>
    /\ progress' = << >>
    /\ UNCHANGED <<config, force_download, files>>

NextDownload ==
    \/ \E o \in LoadOutcomes : MainLoadConfig(o) /\ UNCHANGED <<wsVars, tailVars, fetchVars, provVars>>
    \/ MainCreateTasks /\ UNCHANGED <<wsVars, tailVars, fetchVars, provVars>>
    \/ \E j \in DOMAIN jobs : TaskStart(j) /\ UNCHANGED <<wsVars, tailVars, fetchVars, provVars>>
    \/ \E j \in DOMAIN jobs, o \in Outcomes : ProcessExit(j, o) /\ UNCHANGED <<wsVars, tailVars, fetchVars, provVars>>
    \/ MainGather /\ UNCHANGED <<wsVars, tailVars, fetchVars, provVars>>
    \/ Rerun /\ UNCHANGED <<wsVars, tailVars, fetchVars, provVars>>

\* The orchestrator alone: nobody is connected and the tailer is not started.
InitSpecDownload ==
    InitDownload /\ NoRegistry /\ NoTailer /\ NoFetchJob /\ NoProvision

SpecDownload == InitSpecDownload /\ [][NextDownload]_vars

\* The jobs of a run are numbered from 1.
JobIds == 1..MaxJobs

\* A step of the orchestrator other than being run again.
ProgressDownload ==
    \/ \E o \in LoadOutcomes : MainLoadConfig(o) /\ UNCHANGED <<wsVars, tailVars, fetchVars, provVars>>
    \/ MainCreateTasks /\ UNCHANGED <<wsVars, tailVars, fetchVars, provVars>>
    \/ \E j \in JobIds : TaskStart(j) /\ UNCHANGED <<wsVars, tailVars, fetchVars, provVars>>
    \/ \E j \in JobIds, o \in Outcomes : ProcessExit(j, o) /\ UNCHANGED <<wsVars, tailVars, fetchVars, provVars>>
    \/ MainGather /\ UNCHANGED <<wsVars, tailVars, fetchVars, provVars>>

\* The event loop runs a task that can run, and an external process that runs
\* ends; whether the orchestrator is run again is left open.
FairDownload == WF_vars(ProgressDownload)

SpecDownloadFair == InitSpecDownload /\ [][NextDownload]_vars /\ FairDownload

\* The orchestrator as the registry's and the tailer's specifications see it:
\* not run.
NoDownload ==
    /\ config = << <<"checkpoints", JsonList(<< >>)>>, <<"loras", JsonList(<< >>)>> >>
    /\ force_download = FALSE
    /\ files = {}
    /\ run = 1
    /\ main_pc = "start"
    /\ load = "none"
    /\ config_errors = << >>
    /\ jobs = << >>
    /\ sem_value = MaxConcurrent
    /\ sem_waiters = << >>
    /\ prev_failed = {}
    /\ warnings = << >>
    /\ progress = << >>

\* The registry alone.
InitSpecBroadcast ==
    InitBroadcast /\ NoDownload /\ NoTailer /\ NoFetchJob /\ NoProvision

SpecBroadcast == InitSpecBroadcast /\ [][NextBroadcast]_vars

\* The tailer, the buffer and the snapshot alone.
InitSpecTail ==
    InitTail /\ NoDownload /\ NoRegistry /\ NoFetchJob /\ NoProvision

SpecTail == InitSpecTail /\ [][NextTail]_vars

\* A FetchJob of the server and the registry.
InitSpecFetch ==
    InitFetch /\ InitBroadcast /\ NoDownload /\ NoTailer /\ NoProvision

SpecFetch == InitSpecFetch /\ [][NextFetch]_vars

InitSpecStall ==
    InitBroadcast /\ NoDownload /\ NoTailer /\ NoFetchJob /\ NoProvision

SpecStall == InitSpecStall /\ [][NextStall]_vars /\ FairStall

InitSpecProvision ==
    InitProvision /\ NoDownload /\ NoRegistry /\ NoTailer /\ NoFetchJob

\* Concurrent gdrive jobs and a job of another variant on the server's loop.
SpecProvision == InitSpecProvision /\ [][NextProvision]_vars

(***************************************************************************)
(*                 PROPERTIES OF THE TAILER AND THE BUFFER                 *)
(***************************************************************************)

\* The last n elements of a sequence.
LastN(seq, n) ==
    IF Len(seq) <= n THEN seq ELSE SubSeq(seq, Len(seq) - n + 1, Len(seq))

\* C5: outside the critical section of log_lock the buffer holds at most 500
\* entries, and they are the most recently appended ones in insertion order.
C5_RingBuffer ==
    log_lock # "tailer" =>
        /\ Len(log_buffer) <= RingCapacity
        /\ log_buffer = LastN(appended, RingCapacity)

\* More than 500 lines have been appended, and the tailer has left the
\* critical section: the oldest entries have been evicted.
C5_Witness ==
    /\ log_lock # "tailer"
    /\ Len(appended) > RingCapacity
    /\ Len(log_buffer) = RingCapacity
    /\ log_buffer[1] # appended[1]

\* C6: a line equal to the entry before it is not appended, so that the
\* buffer never holds two adjacent equal entries.
C6_NoAdjacentDuplicates ==
    \A i \in 1..(Len(log_buffer) - 1) : log_buffer[i] # log_buffer[i + 1]

\* The positions of a buffer that start a run of identical lines, in order.
RunStarts(buf) ==
    SelectSeq([i \in 1..Len(buf) |-> i],
              LAMBDA i : i = 1 \/ buf[i] # buf[i - 1])

\* The lines of a buffer, every run of identical lines once.
Collapsed(buf) ==
    LET starts == RunStarts(buf) IN [j \in 1..Len(starts) |-> buf[starts[j]]]

\* C7: the entries get_current_logs lists are the buffered lines, rendered,
\* with every run of consecutive identical lines collapsed to one entry and
\* the other duplicates kept; for the lines "a", "a", "b" they are "a", "b".
C7_SnapshotCollapsesRuns ==
    [][(log_lock = "reader" /\ log_lock' = "free") =>
          LET lines == Collapsed(log_buffer)
              shown == snapshot'.entries
          IN  /\ shown = [j \in 1..Len(lines) |-> FormatLogLine(lines[j], FALSE)]
              /\ log_buffer = << <<"a">>, <<"a">>, <<"b">> >> =>
                     [j \in 1..Len(shown) |-> shown[j].content]
                         = << <<"a">>, <<"b">> >>]_vars

\* The tailer was fed "a", "a", "b" and get_current_logs has listed them.
C7_Witness ==
    /\ log_buffer = << <<"a">>, <<"a">>, <<"b">> >>
    /\ log_lock = "free"
    /\ snapshot.count = 3
    /\ Len(snapshot.entries) = 2

\* C21: what get_current_logs returns is the buffer as it stood between two
\* whole appends: the most recently appended lines, at most 500 of them, each
\* buffered line read once (the runs of identical lines collapsed as in C7),
\* never the buffer with an entry appended and the eviction still to come.
C21_SnapshotIsPointInTime ==
    [][(log_lock = "reader" /\ log_lock' = "free") =>
          /\ tail_pc # "locked"
          /\ snapshot'.count <= RingCapacity
          /\ snapshot' = GetCurrentLogs(LastN(appended, RingCapacity))]_vars

\* The tailer has appended more than 500 lines and get_current_logs has
\* returned the 500 lines buffered after the last append.
C21_Witness ==
    /\ Len(appended) > RingCapacity
    /\ log_lock = "free"
    /\ snapshot.count = RingCapacity
    /\ snapshot = GetCurrentLogs(log_buffer)

\* C22: the number in the header of a snapshot is the number of log entries
\* listed after it, none for the empty buffer.
C22_HeaderCountsEntries ==
    snapshot.count = IF snapshot.no_logs THEN 0 ELSE Len(snapshot.entries)

\* C28: the tailer holds log_lock only for the append and the eviction:
\* whenever it is in the broadcast of a line (a send to a subscriber may be
\* in progress) it does not hold the lock, so get_current_logs can take it.
C28_NoLockAcrossBroadcast ==
    /\ log_lock = "tailer" => tail_pc = "locked"
    /\ tail_pc = "broadcast" => log_lock \in {"free", "reader"}
    /\ (tail_pc = "broadcast" /\ log_lock = "free") => ENABLED GetLogsAcquire

\* get_current_logs holds the lock while the tailer is in a broadcast.
C28_Witness ==
    /\ tail_pc = "broadcast"
    /\ log_lock = "reader"
    /\ log_buffer # << >>

\* C13: no exception raised while following the file or while processing a
\* line ends the tailer: tail_log_file goes on running.
C13_TailerSurvivesExceptions ==
    faults > 0 => tail_pc # "ended"

\* The lines of a sequence that are not empty once stripped, stripped.
NonEmptyStripped(lines) ==
    SelectSeq([i \in 1..Len(lines) |-> Strip(lines[i])], LAMBDA l : l # << >>)

C16_MissingFileIsCreated ==
    tail_pc # "start" =>
        /\ tail_pc # "crashed"
        /\ file_exists

\* C29: when the file was truncated since the last size check, the read
\* after the next size check starts from offset 0, whatever the size of the
\* new content: follow never goes on from the offset it had in the old content.
C29_TruncationAlwaysDetected ==
    [][(tail_pc = "check" /\ tail_pc' = "read" /\ truncated) =>
          current_position' = 0]_vars

\* Whether a sequence begins with another.
IsPrefix(short, long) ==
    Len(short) <= Len(long) /\ short = SubSeq(long, 1, Len(short))

\* C30: a line is delivered whole and once, also when its writer wrote it in
\* two steps and follow polled in between: every line follow yields ends
\* with its terminator, and of a file that was never truncated the lines
\* appended to the buffer are, in order, lines of the file.
C30_LinesDeliveredWhole ==
    /\ \A i \in DOMAIN read_lines : read_lines[i][Len(read_lines[i])] = NL
    /\ truncs = 0 =>
          IsPrefix(appended, NonEmptyStripped(ReadLines(file_data)))

\* C8: when a size check of follow sees a size smaller than the check
\* before it saw, the next read starts from offset 0.
C8_SizeDecreaseResetsOffset ==
    [][(tail_pc = "check" /\ tail_pc' = "read" /\ file_size' < file_size) =>
          current_position' = 0]_vars

(***************************************************************************)
(*                    PROPERTIES OF THE ORCHESTRATOR                       *)
(***************************************************************************)

\* C12: a job that had to wait for a slot starts only in the step in which a
\* running job ends; with every fetch terminating, every queued job reaches
\* succeeded or failed (succeeded when its process exits with 0) and the
\* session completes.
C12_QueuedJobsRunInTurnAndEnd ==
    /\ [][\A j \in JobIds :
            (j \in DOMAIN jobs /\ j \in DOMAIN jobs'
               /\ jobs[j].st = "waiting" /\ jobs'[j].st = "running")
            => \E k \in Running(jobs) : k \in Terminal(jobs')]_vars
    /\ (main_pc = "gather")
          ~> (/\ main_pc = "done"
              /\ \A j \in Queued(jobs) :
                    /\ j \in Terminal(jobs)
                    /\ jobs[j].outcome = "exit0" => jobs[j].st = "succeeded")

\* More jobs than slots were queued, every process exited with 0, and the
\* session is complete: the jobs that had to wait have succeeded too.
C12_Witness ==
    /\ main_pc = "done"
    /\ Cardinality(Queued(jobs)) > MaxConcurrent
    /\ \A j \in Queued(jobs) : jobs[j].outcome = "exit0" /\ jobs[j].st = "succeeded"

\* The states a job goes to from a state: pending (waiting for its turn or
\* for a slot) to running, running to succeeded or failed, and nowhere from
\* skipped, succeeded and failed.
JobSuccessors(st) ==
    CASE st = "pending"  -> {"waiting", "running"}
      [] st = "waiting"  -> {"running"}
      [] st = "running"  -> {"succeeded", "failed"}
      [] OTHER           -> {}

\* C18: the jobs of a session are created skipped or pending; a job changes
\* state only along pending -> running -> succeeded or failed; a skipped,
\* succeeded or failed job never changes again, so that no job's fetch is
\* started twice.
C18_JobLifecycle ==
    [][IF run' = run /\ jobs # << >>
       THEN /\ DOMAIN jobs' = DOMAIN jobs
            /\ \A j \in DOMAIN jobs :
                  \/ jobs'[j].st = jobs[j].st
                  \/ jobs'[j].st \in JobSuccessors(jobs[j].st)
       ELSE \A j \in DOMAIN jobs' : jobs'[j].st \in {"skipped", "pending"}]_vars

\* A session is complete in which a job was skipped, a job failed after
\* waiting for nothing more, and a job succeeded.
C18_Witness ==
    /\ main_pc = "done"
    /\ run = 1
    /\ \E j \in DOMAIN jobs : jobs[j].st = "skipped"
    /\ \E j \in DOMAIN jobs : jobs[j].st = "failed"
    /\ \E j \in DOMAIN jobs : jobs[j].st = "succeeded"

\* C19: when the jobs of a session are created, a job is skipped exactly when
\* a file named like the last path segment of its URL is in its category's
\* directory and force is false; every other URL gets a queued job; and a
\* skipped job never starts.
C19_SkipExactlyWhenPresent ==
    [][/\ (main_pc = "loaded" /\ main_pc' # "loaded") =>
            /\ Len(jobs') = ConfigSize(config)
            /\ \A j \in DOMAIN jobs' :
                  LET url == jobs'[j].url
                      present == <<jobs'[j].cat, url[Len(url)]>> \in files
                  IN  /\ jobs'[j].st = "skipped" <=> (present /\ ~force_download)
                      /\ jobs'[j].st # "skipped" => jobs'[j].st = "pending"
       /\ \A j \in DOMAIN jobs :
            (run' = run /\ jobs[j].st = "skipped") => jobs'[j] = jobs[j]]_vars

\* C20: the session is complete only when every job that was not skipped has
\* ended succeeded or failed: none is pending or running then.
C20_CompletionAfterAllJobs ==
    main_pc = "done" =>
        /\ Pending(jobs) = {}
        /\ Running(jobs) = {}
        /\ \A j \in Queued(jobs) : jobs[j].st \in {"succeeded", "failed"}

\* A session of two categories is complete after 'All model downloads
\* completed!', with a failed job among those that ended.
C20_Witness ==
    /\ main_pc = "done"
    /\ Cardinality(Queued(jobs)) > 1
    /\ \E j, k \in Queued(jobs) : jobs[j].cat # jobs[k].cat
    /\ \E j \in Queued(jobs) : jobs[j].st = "failed"

\* The jobs of a category, and how often a warning names it.
JobsOf(category) == {j \in DOMAIN jobs : jobs[j].cat = category}
WarningsOf(category) ==
    Cardinality({i \in DOMAIN warnings : warnings[i] = category})

\* C25: in a session started through main, a category whose value is not a
\* list gets exactly one warning and no job, no error is reported for it, and
\* every other category is expanded into one job per URL.
C25_NonListSkippedWithWarning ==
    main_pc \in {"gather", "done"} =>
        /\ config_errors = << >>
        /\ \A k \in DOMAIN config :
              IF IsList(config[k][2])
              THEN /\ Cardinality(JobsOf(config[k][1])) = Len(config[k][2].items)
                   /\ WarningsOf(config[k][1]) = 0
              ELSE /\ JobsOf(config[k][1]) = {}
                   /\ WarningsOf(config[k][1]) = 1

\* The progress reports of the session that were handed to the registry:
\* the orchestrator calls neither broadcast_to_websockets nor its wrapper.
Delivered(j) == IF bc_cycles > 0 THEN progress[j] ELSE << >>

C11_LoadFailureOneError ==
    (main_pc = "aborted" /\ load # "ok") =>
        /\ jobs = << >>
        /\ Len(config_errors) = 1

\* The destination path of a job: category_path / filename, the directory
\* and the output name that download_file hands to the external process.
DestinationOf(job) == <<job.cat, job.filename>>

\* C31: in every state of a session, no two running jobs have the same
\* destination path: of the jobs of a category whose URLs have the same
\* final path segment, at most one is running.
C31_OneFetchPerDestination ==
    \A j, k \in Running(jobs) :
        DestinationOf(jobs[j]) = DestinationOf(jobs[k]) => j = k

\* C1: in every state of a session, the number of jobs inside the
\* semaphore-guarded section of download_file is at most the concurrency
\* bound, however many categories and jobs there are.
C1_ConcurrencyBound == Cardinality(Running(jobs)) <= MaxConcurrent

\* C1's case: more jobs than slots, jobs of two categories inside the section,
\* every slot taken and a job waiting for one.
C1_Witness ==
    /\ Cardinality(Running(jobs)) = MaxConcurrent
    /\ sem_waiters # << >>
    /\ \E j, k \in Running(jobs) : jobs[j].cat # jobs[k].cat

\* C9 as stated: on a second run with force = false every job is skipped,
\* no FetchJob is spawned.
C9_SecondRunAllSkipped ==
    (run > 1 /\ ~force_download /\ main_pc # "start") => Queued(jobs) = {}

\* C9 as amended: on a second run with force = false, only jobs that failed in
\* the first run are fetched again; a job that was skipped or succeeded in the
\* first run is skipped, so when no job of the first run failed, no FetchJob
\* is spawned.
C9_SecondRunSkipsFetched ==
    (run > 1 /\ ~force_download /\ main_pc # "start") =>
        Queued(jobs) \subseteq prev_failed

\* C9's case: a second run, several jobs, at least one of which the first run
\* fetched, none failed, and all of them skipped now.
C9_Witness ==
    /\ run = 2
    /\ ~force_download
    /\ main_pc = "done"
    /\ Len(jobs) > MaxConcurrent
    /\ prev_failed = {}
    /\ Queued(jobs) = {}

\* C10: a job's failure never cancels or prevents its siblings.  While main
\* waits in gather, some job that is not yet done can start or run on; and
\* when the session completes, every job that was not skipped has ended
\* succeeded or failed according to its own process's outcome.
C10_FailureIsolated ==
    /\ main_pc = "gather" =>
          (Pending(jobs) # {} \/ Running(jobs) # {} \/ Queued(jobs) \subseteq Terminal(jobs))
    /\ main_pc = "done" =>
          \A j \in Queued(jobs) :
              /\ jobs[j].outcome \in Outcomes
              /\ jobs[j].st = IF jobs[j].outcome = "exit0" THEN "succeeded" ELSE "failed"

\* C10's case: a completed session of more jobs than slots, in which one job
\* failed by its exit status, one by an exception, and a job of each category
\* succeeded.
C10_Witness ==
    /\ main_pc = "done"
    /\ Cardinality(Queued(jobs)) > MaxConcurrent
    /\ \E j \in Queued(jobs) : jobs[j].outcome = "exitN"
    /\ \E j \in Queued(jobs) : jobs[j].outcome = "exception"
    /\ \E j, k \in Queued(jobs) :
          /\ jobs[j].cat # jobs[k].cat
          /\ jobs[j].st = "succeeded"
          /\ jobs[k].st = "succeeded"

(***************************************************************************)
(*                     PROPERTIES OF THE REGISTRY                          *)
(***************************************************************************)

CycleOver(b) == bc_pc[b] \in {"done", "raised"}

JobOver == job_pc \in {"returned", "raised"}

\* The gdrive jobs whose "pip install gdown" is running.
Installing == {j \in GdriveJobs : gd_pc[j] = "install"}

\* C23: with several gdrive jobs running while gdown is absent, the install
\* is run at most once: no two installs overlap and none is started once
\* gdown is there; and while an install runs the job of another variant can
\* still take its next step.
C23_InstallAtMostOnce ==
    /\ installs <= 1
    /\ Cardinality(Installing) <= 1
    /\ (Installing # {} /\ other_pc # "done") => ENABLED OtherJobStep

\* C14: no broadcast a FetchJob makes raises to it because of a failed or
\* removed subscriber, and the job's result depends on the exit status of
\* its process only: a job whose process exited with 0 returns success.
C14_DeliveryFailuresNotSurfaced ==
    /\ job_pc # "start" => bc_pc["job"] # "raised"
    /\ (job_pc = "returned" /\ job_exit = "exit0") => job_result = TRUE
    /\ (job_pc = "returned" /\ job_exit # "exit0") => job_result = FALSE

\* C15: a job that has broadcast "downloading" has, when it is over,
\* broadcast exactly one terminal event after it, "success" for exit status 0
\* and "failed" otherwise, and its result agrees with that event.
C15_OneTerminalEvent ==
    (JobOver /\ job_events # << >>) =>
        /\ job_events = <<"downloading", TerminalEvent(job_exit)>>
        /\ job_exit # "none"
        /\ job_result = (job_exit = "exit0")

\* C24: a subscriber whose send never completes does not block the
\* broadcaster: every cycle of the tailer's broadcast comes to its end, so
\* that sync_broadcast_to_websockets returns and the tailer takes its next line.
C24_SlowSubscriberDoesNotBlock ==
    (bc_pc["tailer"] = "sending") ~> CycleOver("tailer")

\* C2: whatever connects, disconnects and other cycles' removals come in
\* between, a websocket that is registered when a broadcast cycle starts and
\* still registered when it ends has received exactly one copy of the event.
C2_ExactlyOneCopy ==
    \A b \in Broadcasters :
        CycleOver(b) =>
            \A w \in bc_start[b] \cap bc_end[b] : bc_sent[b][w] = 1

\* C3: in one cycle, a websocket whose send failed is out of the registry
\* when the cycle ends, the cycle does not abort, and every other websocket
\* of the registry has been tried.
C3_FailureDropsOnlyTheFailed ==
    \A b \in Broadcasters :
        CycleOver(b) =>
            /\ bc_pc[b] # "raised"
            /\ Range(bc_disc[b]) \cap bc_end[b] = {}
            /\ (bc_start[b] \cap bc_end[b]) \subseteq Tried(b)

\* C27: a websocket is registered only from its connect on; once its
\* endpoint has handled the disconnect it is out of the registry, and once a
\* broadcast cycle whose send to it failed is over it is out of the registry:
\* it is not there for the cycles that follow.
C27_RegisteredOnlyDuringSession ==
    /\ \A w \in Range(websocket_connections) : ws_pc[w] # "none"
    /\ \A w \in Websockets :
          ws_pc[w] \in {"closed", "raised"} => w \notin Range(websocket_connections)
    /\ \A b \in Broadcasters :
          CycleOver(b) => Range(bc_disc[b]) \cap Range(websocket_connections) = {}

\* C4: removing a websocket that is no longer in the registry raises no
\* error, in the disconnect handler of websocket_endpoint and in the removal
\* loop of a broadcast cycle alike.
C4_RemoveIsIdempotent ==
    /\ \A w \in Websockets : ws_pc[w] # "raised"
    /\ \A b \in Broadcasters : bc_pc[b] # "raised"

=============================================================================
